---- MODULE Spec2Model ----
(***************************************************************************)
(* State-machine model of the AmarcordDJ two-deck console (src/src/App.tsx):*)
(* the per-deck effects chain (ensureNodes / applyFilters / setEQ), the    *)
(* wavesurfer "ready" handlers, the MIDI dispatcher with its captured      *)
(* closures, transport (togglePlay) and the mix recorder (toggleRecord).   *)
(*                                                                         *)
(* A React render is atomic here: an event handler, the state updates it   *)
(* queues, the re-render and the effects whose dependencies changed form   *)
(* one action.  Closures installed by effects that do NOT re-run (the      *)
(* mount-only wavesurfer effect, the midiMap-keyed MIDI effect) keep the   *)
(* values of the render that created them; those values are state here.    *)
(*                                                                         *)
(* Units: wet amounts are integer percents (UI slider 0..100, wet = p/100);*)
(* gate threshold in 1/100 dB, filter cutoff in Hz, delay time in 1/10000 s*)
(* and feedback gain in 1/1000, so that the parameter maps stay integral.  *)
(***************************************************************************)
EXTENDS Integers, Sequences, FiniteSets, TLC

\* ------------------------------------------------------------------ bounds
MaxOps == 4

\* --------------------------------------------------------------- constants
Decks == {"A", "B"}
FxKeys == {"reverb", "delay", "filter", "gate"}
Bands == {"lowshelf", "peaking", "highshelf"}

OtherDeck(d) == IF d = "A" THEN "B" ELSE "A"

\* Slider positions offered to setWet and setEQ.
WetVals == {100}
EqVals == {6}
WetSteps == 0..100
WetDecks == {"A"}

FxOff == [k \in FxKeys |-> FALSE]
DefaultWet == [reverb |-> 35, delay |-> 25, filter |-> 50, gate |-> 50]

DEFAULT_FX_PRESETS ==
  [Clean |-> [fx |-> [reverb |-> FALSE, delay |-> FALSE, filter |-> FALSE, gate |-> FALSE],
              wet |-> [reverb |-> 20, delay |-> 15, filter |-> 40, gate |-> 40]],
   Wide  |-> [fx |-> [reverb |-> TRUE, delay |-> TRUE, filter |-> FALSE, gate |-> FALSE],
              wet |-> [reverb |-> 60, delay |-> 35, filter |-> 40, gate |-> 40]],
   Tight |-> [fx |-> [reverb |-> FALSE, delay |-> FALSE, filter |-> TRUE, gate |-> TRUE],
              wet |-> [reverb |-> 20, delay |-> 20, filter |-> 50, gate |-> 70]]]

FxPresetNames == {"Clean", "Wide", "Tight"}

DEFAULT_MIDI ==
  [deckAPlay |-> 60, deckBPlay |-> 62, crossfader |-> 1, master |-> 7,
   fxAReverb |-> 20, fxADelay |-> 21, fxAFilter |-> 22, fxAGate |-> 23,
   fxBReverb |-> 24, fxBDelay |-> 25, fxBFilter |-> 26, fxBGate |-> 27,
   recordToggle |-> 40]

DEFAULT_PRESETS ==
  [Default |-> DEFAULT_MIDI,
   Compact |-> [DEFAULT_MIDI EXCEPT !.fxAReverb = 36, !.fxADelay = 37,
                                    !.fxAFilter = 38, !.fxAGate = 39,
                                    !.fxBReverb = 40, !.fxBDelay = 41,
                                    !.fxBFilter = 42, !.fxBGate = 43]]

PresetNames == {"Default", "Compact"}

\* The logical actions matched in the note-on branch and in the CC branch.
NoteActions == {"deckAPlay", "deckBPlay", "fxAReverb", "fxADelay", "fxAFilter",
                "fxAGate", "fxBReverb", "fxBDelay", "fxBFilter", "fxBGate",
                "recordToggle"}
CCActions == {"crossfader", "master"}
MidiActions == NoteActions \cup CCActions

PlayAction == [A |-> "deckAPlay", B |-> "deckBPlay"]
FxAction ==
  [A |-> [reverb |-> "fxAReverb", delay |-> "fxADelay", filter |-> "fxAFilter", gate |-> "fxAGate"],
   B |-> [reverb |-> "fxBReverb", delay |-> "fxBDelay", filter |-> "fxBFilter", gate |-> "fxBGate"]]

NoHandler == [installed |-> FALSE]

\* Inputs offered by the environment.
MidiMsgs ==
  {<<st, d1, d2>> : st \in {128, 144, 147, 176}, d1 \in {7, 40, 60, 99}, d2 \in {0, 127}}
  \cup {<<144, 40>>}
FxMidiMsgs == {<<144, d1, d2>> : d1 \in {22, 23}, d2 \in {0, 100}}
EditActions == {"recordToggle", "master"}
EditCodes == {41}
BpmVals == {120, 150}
TrackDurations == {2900}
SeekTimes == {1230, 2800}
ChunkSizes == {0, 1}
TempoVals == {60, 97, 150}
FaderSteps == 0..100
CCData == {0, 1, 63, 64, 126, 127}
CCMsgs == {<<st, d1, d2>> : st \in {176, 179}, d1 \in {1, 7, 41}, d2 \in CCData}
CCEditCodes == {41}
TapGaps == {249, 250, 400, 500, 2000, 2001}

\* ------------------------------------------------------------------- state
VARIABLES
  fx,        \* fxA / fxB: deck -> effect -> enabled
  wet,       \* wetA / wetB: deck -> effect -> percent
  fxRef,     \* identity of the object held by fxA / fxB ("own" or a preset name)
  wetRef,    \* identity of the object held by wetA / wetB
  eqGain,    \* eqA / eqB: deck -> band -> dB shown by the knob
  ctx,       \* deck -> wave.backend.ac exists
  nodes,     \* nodesRef.current: deck -> DeckNodes
  chain,     \* deck -> stage list last handed to wave.setFilters
  lastOn,    \* history: the effect most recently switched on (<<deck, key>>)
  audioCtx,  \* audioCtxRef.current is set
  midiMap,   \* the MidiMap state
  midiRef,   \* identity of the object held by midiMap ("own" or a preset name)
  pending,   \* requestMIDIAccess() promises in flight, each with its closure
  handler,   \* the closure installed as input.onmidimessage (or NoHandler)
  playing,   \* deck -> wave.isPlaying()
  pos,       \* deck -> wave.getCurrentTime(), ms
  duration,  \* deck -> wave.getDuration(), ms
  bpm,       \* bpmA / bpmB, 0 = null
  beatSnap,  \* beat-snap setting
  recording, \* the recording flag
  recorderRef, \* recorderRef.current: id of the MediaRecorder held, 0 = null
  activeRec, \* MediaRecorders started and not stopped
  nextRec,   \* number of MediaRecorders constructed so far
  stopping,  \* MediaRecorders stopped whose final data / stop events are due
  recordChunks, \* recordChunksRef.current: each chunk named by its recorder
  recordedUrl,  \* recordedUrl: the chunks of the blob exposed, or NoUrl
  lastRec,   \* history: how the last record request ended
  emitted,   \* history: the recorders that have delivered a non-empty chunk
  crossfader,
  master,
  volume,    \* deck -> volume handed to wave.setVolume, in 1/10000
  tempo,     \* tempoA / tempoB: deck -> rate as a fraction <<num, den>>
  lastTap,   \* lastTap, ms (0 = no tap yet)
  lastTapOn, \* history: deck -> time of the last tap made on that deck
  analysing, \* analyzeTrack calls in flight: [deck, n, bpm] (bpm 0 = it fails)
  loaded,    \* history: deck -> analysis outcomes of the tracks loaded, in order
  meterLevel, \* meterLevelRef.current: deck -> level, in 1/10000
  stored,    \* localStorage item "amarcord_settings" (NoSettings = absent)
  settingsLoad, \* startup: phase "rendered", then "loading", then "done",
                \* and what the previous run had left in the store
  ops        \* number of user / controller inputs handled so far

fxVars == <<fx, wet, fxRef, wetRef, eqGain, ctx, nodes, chain, lastOn>>
midiVars == <<midiMap, midiRef, pending, handler>>
deckVars == <<playing, pos, duration, bpm, beatSnap>>
recVars == <<recording, recorderRef, activeRec, nextRec, stopping, recordChunks,
            recordedUrl, lastRec, emitted>>
mixVars == <<crossfader, master, volume>>
tempoVars == <<tempo, lastTap>>
auxVars == <<lastTapOn, analysing, loaded, meterLevel, stored, settingsLoad>>
vars == <<fx, wet, fxRef, wetRef, eqGain, ctx, nodes, chain, lastOn, audioCtx,
          midiMap, midiRef, pending, handler, playing, pos, duration, bpm,
          beatSnap, recording, recorderRef, activeRec, nextRec, stopping,
          recordChunks, recordedUrl, lastRec, emitted, crossfader, master, volume,
          tempo, lastTap, lastTapOn, analysing, loaded, meterLevel, stored,
          settingsLoad, ops>>

\* A handle is the generation number of the node in its slot: 0 = undefined,
\* 1 = the node first created, 2 = a node created in its place, ...
NoNodes ==
  [eq |-> <<>>,
   filter |-> [id |-> 0, frequency |-> 0],
   delay |-> [id |-> 0, delayTime |-> 0],
   delayFeedback |-> [id |-> 0, gain |-> 0],
   reverb |-> [id |-> 0, buffer |-> FALSE],
   gate |-> [id |-> 0, threshold |-> 0],
   analyser |-> 0]

\* recordedUrl before any recording has been stopped (null).
NoUrl == [exposed |-> FALSE, chunks |-> <<>>]

\* Variant of volumes with the two decks exchanged.
volumesSwapped(c, m) == [A |-> c * m, B |-> (100 - c) * m]

\* The volumes memo and the effect keyed on it: wave.setVolume(volumes.a / .b)
\* for crossfader c and master m, in 1/10000 of full gain.
volumes(c, m) == [A |-> (100 - c) * m, B |-> c * m]

\* The payload the save effect writes (dark mode and the preset lists are
\* left out of the model).
SettingsPayload(snap, map) == [beatSnap |-> snap, midiMap |-> map]

\* localStorage.getItem("amarcord_settings") === null
NoSettings == [absent |-> TRUE]

\* The state of the first render, the wet knobs, the MIDI effect and the
\* settings store aside.
InitCore ==
  /\ fx = [d \in Decks |-> FxOff]
  /\ fxRef = [d \in Decks |-> "own"]
  /\ wetRef = [d \in Decks |-> "own"]
  /\ eqGain = [d \in Decks |-> [b \in Bands |-> 0]]
  /\ ctx = [d \in Decks |-> FALSE]
  /\ nodes = [d \in Decks |-> NoNodes]
  /\ chain = [d \in Decks |-> <<>>]
  /\ lastOn = <<>>
  /\ audioCtx = FALSE
  /\ midiMap = DEFAULT_MIDI
  /\ midiRef = "Default"
  /\ handler = NoHandler
  /\ playing = [d \in Decks |-> FALSE]
  /\ pos = [d \in Decks |-> 0]
  /\ duration = [d \in Decks |-> 0]
  /\ bpm = [d \in Decks |-> 0]
  /\ beatSnap = TRUE
  /\ recording = FALSE
  /\ recorderRef = 0
  /\ activeRec = {}
  /\ nextRec = 0
  /\ stopping = {}
  /\ recordChunks = <<>>
  /\ recordedUrl = NoUrl
  /\ lastRec = "none"
  /\ emitted = {}
  /\ crossfader = 55
  /\ master = 72
  /\ volume = volumes(55, 72)
  /\ tempo = [d \in Decks |-> <<1, 1>>]
  /\ lastTap = 0
  /\ lastTapOn = [d \in Decks |-> 0]
  /\ analysing = {}
  /\ loaded = [d \in Decks |-> <<>>]
  /\ meterLevel = [d \in Decks |-> 0]
  /\ ops = 0

\* The state after the first render and its effects, the wet knobs aside:
\* the MIDI effect has requested access, the mount save has written the
\* defaults and the settings load has read them back.
InitRest ==
  /\ InitCore
  /\ pending = {[installed |-> TRUE, map |-> DEFAULT_MIDI, recording |-> FALSE,
                 bpm |-> [d \in Decks |-> 0], beatSnap |-> TRUE]}
  /\ stored = SettingsPayload(TRUE, DEFAULT_MIDI)
  /\ settingsLoad = [phase |-> "done", previous |-> SettingsPayload(TRUE, DEFAULT_MIDI)]

Init ==
  /\ wet = [d \in Decks |-> DefaultWet]
  /\ InitRest

\* The wet knobs of deck A stand at any step of their range.
InitWet ==
  /\ \E p \in WetSteps :
       wet = [d \in Decks |-> IF d = "A" THEN [k \in FxKeys |-> p] ELSE DefaultWet]
  /\ InitRest

\* ------------------------------------------------------- effects-chain code

\* Parameter maps of applyFilters (wet p in percent).
GateThreshold(p) == -5000 + p * 30
FilterCutoff(p) == 500 + p * 75
DelayTime(p) == 500 + p * 45
DelayFeedback(p) == 100 + p * 6

\* Variant of ensureNodes without the `if (!backend?.ac) return null` guard.
ensureNodesNoGuard(n, hasAc) ==
  [isNull |-> FALSE,
   nodes |-> [n EXCEPT
          !.filter = IF n.filter.id = 0 THEN [id |-> 1, frequency |-> 8000] ELSE @,
          !.delay = IF n.delay.id = 0 THEN [id |-> 1, delayTime |-> 2500] ELSE @,
          !.delayFeedback = IF n.delay.id = 0 THEN [id |-> n.delayFeedback.id + 1, gain |-> 350] ELSE @,
          !.reverb = IF n.reverb.id = 0 THEN [id |-> 1, buffer |-> TRUE] ELSE @,
          !.gate = IF n.gate.id = 0 THEN [id |-> 1, threshold |-> -4000] ELSE @]]

\* Variant of ensureNodes that builds a new resonant filter on every call.
ensureNodesRecreate(n, hasAc) ==
  IF ~hasAc THEN [isNull |-> TRUE, nodes |-> n]
  ELSE [isNull |-> FALSE,
        nodes |-> [n EXCEPT
          !.filter = [id |-> n.filter.id + 1, frequency |-> 8000],
          !.delay = IF n.delay.id = 0 THEN [id |-> 1, delayTime |-> 2500] ELSE @,
          !.delayFeedback = IF n.delay.id = 0 THEN [id |-> n.delayFeedback.id + 1, gain |-> 350] ELSE @,
          !.reverb = IF n.reverb.id = 0 THEN [id |-> 1, buffer |-> TRUE] ELSE @,
          !.gate = IF n.gate.id = 0 THEN [id |-> 1, threshold |-> -4000] ELSE @]]

\* ensureNodes(deck, wave): the null sentinel without a context; otherwise
\* the deck's node set, each missing stage created once with its defaults.
ensureNodes(n, hasAc) ==
  IF ~hasAc THEN [isNull |-> TRUE, nodes |-> n]
  ELSE [isNull |-> FALSE,
        nodes |-> [n EXCEPT
          !.filter = IF n.filter.id = 0 THEN [id |-> 1, frequency |-> 8000] ELSE @,
          !.delay = IF n.delay.id = 0 THEN [id |-> 1, delayTime |-> 2500] ELSE @,
          !.delayFeedback = IF n.delay.id = 0 THEN [id |-> n.delayFeedback.id + 1, gain |-> 350] ELSE @,
          !.reverb = IF n.reverb.id = 0 THEN [id |-> 1, buffer |-> TRUE] ELSE @,
          !.gate = IF n.gate.id = 0 THEN [id |-> 1, threshold |-> -4000] ELSE @]]

EqIndex(n, type) ==
  IF \E i \in 1..Len(n.eq) : n.eq[i].type = type
  THEN CHOOSE i \in 1..Len(n.eq) : n.eq[i].type = type
  ELSE 0

\* createEQFilter: centre / shelf frequency by type, gain 0.
createEQFilter(type) ==
  [type |-> type,
   id |-> 1,
   frequency |-> IF type = "lowshelf" THEN 150 ELSE IF type = "highshelf" THEN 6000 ELSE 1000,
   gain |-> 0]

\* Object.values(nodes.eq): the bands in the order their keys were inserted.
EqStages(n) == [i \in 1..Len(n.eq) |-> n.eq[i].type]

\* Variant of ApplyParams that leaves the feedback gain as it is.
ApplyParamsNoFeedback(n, fxState, w) ==
  [n EXCEPT
     !.gate = IF fxState.gate /\ n.gate.id # 0
              THEN [@ EXCEPT !.threshold = GateThreshold(w.gate)] ELSE @,
     !.filter = IF fxState.filter /\ n.filter.id # 0
                THEN [@ EXCEPT !.frequency = FilterCutoff(w.filter)] ELSE @,
     !.delay = IF fxState.delay /\ n.delay.id # 0
               THEN [@ EXCEPT !.delayTime = DelayTime(w.delay)] ELSE @]

\* applyFilters body after the ensureNodes guard: the node set with the
\* enabled stages reparametrized, and the chain handed to setFilters.
ApplyParams(n, fxState, w) ==
  [n EXCEPT
     !.gate = IF fxState.gate /\ n.gate.id # 0
              THEN [@ EXCEPT !.threshold = GateThreshold(w.gate)] ELSE @,
     !.filter = IF fxState.filter /\ n.filter.id # 0
                THEN [@ EXCEPT !.frequency = FilterCutoff(w.filter)] ELSE @,
     !.delay = IF fxState.delay /\ n.delay.id # 0
               THEN [@ EXCEPT !.delayTime = DelayTime(w.delay)] ELSE @,
     !.delayFeedback = IF fxState.delay /\ n.delay.id # 0 /\ n.delayFeedback.id # 0
                       THEN [@ EXCEPT !.gain = DelayFeedback(w.delay)] ELSE @]

\* Variant of BuildChain that pushes the delay before the resonant filter.
BuildChainDelayFirst(n, fxState) ==
  (IF fxState.gate /\ n.gate.id # 0 THEN <<"gate">> ELSE <<>>)
  \o EqStages(n)
  \o (IF fxState.delay /\ n.delay.id # 0 THEN <<"delay">> ELSE <<>>)
  \o (IF fxState.filter /\ n.filter.id # 0 THEN <<"filter">> ELSE <<>>)
  \o (IF fxState.reverb /\ n.reverb.id # 0 /\ n.reverb.buffer THEN <<"reverb">> ELSE <<>>)

\* The chain array applyFilters pushes to, in push order.
BuildChain(n, fxState) ==
  (IF fxState.gate /\ n.gate.id # 0 THEN <<"gate">> ELSE <<>>)
  \o EqStages(n)
  \o (IF fxState.filter /\ n.filter.id # 0 THEN <<"filter">> ELSE <<>>)
  \o (IF fxState.delay /\ n.delay.id # 0 THEN <<"delay">> ELSE <<>>)
  \o (IF fxState.reverb /\ n.reverb.id # 0 /\ n.reverb.buffer THEN <<"reverb">> ELSE <<>>)

\* applyFilters(deck) run by a closure that sees fxState / w: the resulting
\* node set and chain of that deck (both unchanged without a context).
applyFilters(n, c, hasAc, fxState, w) ==
  LET e == ensureNodes(n, hasAc)
  IN IF e.isNull THEN [nodes |-> n, chain |-> c]
     ELSE [nodes |-> ApplyParams(e.nodes, fxState, w),
           chain |-> BuildChain(e.nodes, fxState)]

\* The effect keyed on [fxA, fxB, wetA, wetB]: applyFilters("A"); applyFilters("B")
\* with the state of the render that has just committed.
FxEffect(newFx, newWet) ==
  LET r == [d \in Decks |-> applyFilters(nodes[d], chain[d], ctx[d], newFx[d], newWet[d])]
  IN /\ nodes' = [d \in Decks |-> r[d].nodes]
     /\ chain' = [d \in Decks |-> r[d].chain]

Tick == /\ ops < MaxOps
        /\ settingsLoad.phase # "rendered"
        /\ ops' = ops + 1

\* toggleFx(deck, key) from the UI button.
toggleFx(d, k) ==
  /\ Tick
  /\ fx' = [fx EXCEPT ![d][k] = ~@]
  /\ fxRef' = [fxRef EXCEPT ![d] = "own"]
  /\ lastOn' = IF ~fx[d][k] THEN <<d, k>> ELSE lastOn
  /\ FxEffect(fx', wet)
  /\ UNCHANGED <<wet, wetRef, eqGain, ctx, audioCtx>>
  /\ UNCHANGED <<midiVars, deckVars, recVars, mixVars, tempoVars>>
  /\ UNCHANGED auxVars

\* Wet knob onChange: setWetA / setWetB with a fresh object.
setWet(d, k, p) ==
  /\ Tick
  /\ wet' = [wet EXCEPT ![d][k] = p]
  /\ wetRef' = [wetRef EXCEPT ![d] = "own"]
  /\ FxEffect(fx, wet')
  /\ UNCHANGED <<fx, fxRef, eqGain, ctx, lastOn, audioCtx>>
  /\ UNCHANGED <<midiVars, deckVars, recVars, mixVars, tempoVars>>
  /\ UNCHANGED auxVars

\* applyFxPreset(deck, name): setFx(preset.fx); setWet(preset.wet).  The
\* effect re-runs only if one of the two objects differs from the one held.
applyFxPreset(d, name) ==
  /\ Tick
  /\ fx' = [fx EXCEPT ![d] = DEFAULT_FX_PRESETS[name].fx]
  /\ wet' = [wet EXCEPT ![d] = DEFAULT_FX_PRESETS[name].wet]
  /\ fxRef' = [fxRef EXCEPT ![d] = name]
  /\ wetRef' = [wetRef EXCEPT ![d] = name]
  /\ IF fxRef[d] = name /\ wetRef[d] = name
     THEN UNCHANGED <<nodes, chain>>
     ELSE FxEffect(fx', wet')
  /\ UNCHANGED <<eqGain, ctx, lastOn, audioCtx>>
  /\ UNCHANGED <<midiVars, deckVars, recVars, mixVars, tempoVars>>
  /\ UNCHANGED auxVars

\* setEQ(deck, type, value) on a node set: the band's stage is created on
\* first use and its gain written in place (before the applyFilters call).
setEQNodes(n, hasAc, type, value) ==
  LET e == ensureNodes(n, hasAc)
      m == e.nodes
      withBand == IF EqIndex(m, type) = 0
                  THEN [m EXCEPT !.eq = Append(@, createEQFilter(type))]
                  ELSE m
  IN IF e.isNull THEN n
     ELSE [withBand EXCEPT !.eq[EqIndex(withBand, type)].gain = value]

\* EQ knob onChange: setEqA/B then setEQ(deck, type, value), which returns
\* before applyFilters when ensureNodes gives null.
setEQ(d, type, value) ==
  /\ Tick
  /\ eqGain' = [eqGain EXCEPT ![d][type] = value]
  /\ LET e == ensureNodes(nodes[d], ctx[d])
         r == applyFilters(setEQNodes(nodes[d], ctx[d], type, value),
                           chain[d], ctx[d], fx[d], wet[d])
     IN IF e.isNull
        THEN UNCHANGED <<nodes, chain>>
        ELSE /\ nodes' = [nodes EXCEPT ![d] = r.nodes]
             /\ chain' = [chain EXCEPT ![d] = r.chain]
  /\ UNCHANGED <<fx, wet, fxRef, wetRef, ctx, lastOn, audioCtx>>
  /\ UNCHANGED <<midiVars, deckVars, recVars, mixVars, tempoVars>>
  /\ UNCHANGED auxVars

\* attachAnalyser(deck, wave): one analysis tap per deck, created once.
attachAnalyser(n, hasAc) ==
  IF ~hasAc \/ n.analyser # 0 THEN n ELSE [n EXCEPT !.analyser = 1]

\* The fxA/fxB/wetA/wetB seen by the "ready" handlers: they were registered
\* by the mount-only effect, so their applyFilters is the first render's.
ReadyFx(d) == FxOff
ReadyWet(d) == DefaultWet

\* loadTrack(deck, file) up to the wavesurfer "ready" event of that deck:
\* setDuration, applyFilters(deck), attachAnalyser(deck, wave).  A newly
\* loaded track starts paused at 0.
TrackReady(d, dur) ==
  /\ Tick
  /\ ctx' = [ctx EXCEPT ![d] = TRUE]
  /\ audioCtx' = TRUE
  /\ duration' = [duration EXCEPT ![d] = dur]
  /\ pos' = [pos EXCEPT ![d] = 0]
  /\ playing' = [playing EXCEPT ![d] = FALSE]
  /\ LET r == applyFilters(nodes[d], chain[d], TRUE, ReadyFx(d), ReadyWet(d))
     IN /\ nodes' = [nodes EXCEPT ![d] = attachAnalyser(r.nodes, TRUE)]
        /\ chain' = [chain EXCEPT ![d] = r.chain]
  /\ UNCHANGED <<fx, wet, fxRef, wetRef, eqGain, lastOn, bpm, beatSnap>>
  /\ UNCHANGED <<midiVars, recVars, mixVars, tempoVars>>
  /\ UNCHANGED auxVars

\* ---------------------------------------------------------------- settings

\* The effect keyed on [darkMode, beatSnap, midiMap], without a Tauri store
\* (storeRef.current null): localStorage.setItem("amarcord_settings", payload).
SaveEffect(snap, map) == stored' = SettingsPayload(snap, map)

\* ------------------------------------------------------- transport / tempo

\* Math.round for a non-negative quotient a / b.
RoundDiv(a, b) == (2 * a + b) \div (2 * b)

Clamp(x, lo, hi) == IF x < lo THEN lo ELSE IF x > hi THEN hi ELSE x

\* Math.round(t / beat) * beat with beat = 60 / bpm (t in ms; exact for the
\* tempi of BpmVals, whose beat is a whole number of ms).
Snapped(t, b) == RoundDiv(t * b, 60000) * (60000 \div b)

\* togglePlay(deck) as run by a closure that sees seenBpm / seenSnap:
\* the new position and playing flag of the deck.  playPause() starts or
\* pauses only a deck that has a track.
togglePlayPos(d, seenBpm, seenSnap) ==
  IF ~playing[d] /\ seenSnap /\ seenBpm[d] # 0
  THEN Clamp(Snapped(pos[d], seenBpm[d]), 0, duration[d])
  ELSE pos[d]

togglePlayPlaying(d) == IF ctx[d] THEN ~playing[d] ELSE playing[d]

\* Play button onClick: togglePlay(deck) of the current render.
togglePlay(d) ==
  /\ Tick
  /\ pos' = [pos EXCEPT ![d] = togglePlayPos(d, bpm, beatSnap)]
  /\ playing' = [playing EXCEPT ![d] = togglePlayPlaying(d)]
  /\ audioCtx' = TRUE
  /\ UNCHANGED <<duration, bpm, beatSnap>>
  /\ UNCHANGED <<fxVars, midiVars, recVars, mixVars, tempoVars>>
  /\ UNCHANGED auxVars

\* The transport position moves (playback progress or a click on the
\* waveform) on a deck that has a track.
Seek(d, t) ==
  /\ Tick
  /\ ctx[d] /\ t <= duration[d]
  /\ pos' = [pos EXCEPT ![d] = t]
  /\ UNCHANGED <<playing, duration, bpm, beatSnap, audioCtx>>
  /\ UNCHANGED <<fxVars, midiVars, recVars, mixVars, tempoVars>>
  /\ UNCHANGED auxVars

\* analyzeTrack(deck, file) completes for a loaded track: a number sets the
\* estimate (Math.round), a failure clears it.
analyzeTrack(d, b) ==
  /\ Tick
  /\ ctx[d]
  /\ bpm' = [bpm EXCEPT ![d] = b]
  /\ UNCHANGED <<playing, pos, duration, beatSnap, audioCtx>>
  /\ UNCHANGED <<fxVars, midiVars, recVars, mixVars, tempoVars>>
  /\ UNCHANGED auxVars

\* loadTrack(deck, file) up to its await: wave.load(url) is issued and
\* analyzeTrack starts (it sets audioCtxRef before its first await).  b is
\* what the analysis of this file will give: a BPM, or 0 when it throws.
loadTrack(d, b) ==
  /\ Tick
  /\ analysing' = analysing \cup {[deck |-> d, n |-> Len(loaded[d]) + 1, bpm |-> b]}
  /\ loaded' = [loaded EXCEPT ![d] = Append(@, b)]
  /\ audioCtx' = TRUE
  /\ UNCHANGED <<lastTapOn, meterLevel, stored, settingsLoad>>
  /\ UNCHANGED <<fxVars, midiVars, deckVars, recVars, mixVars, tempoVars>>

\* An analyzeTrack call in flight settles: setBpm(Math.round(bpmValue)), or
\* setBpm(null) in its catch.  Nothing else is written.
analyzeTrackSettled(job) ==
  /\ job \in analysing
  /\ analysing' = analysing \ {job}
  /\ bpm' = [bpm EXCEPT ![job.deck] = job.bpm]
  /\ UNCHANGED <<playing, pos, duration, beatSnap, audioCtx, ops>>
  /\ UNCHANGED <<lastTapOn, loaded, meterLevel, stored, settingsLoad>>
  /\ UNCHANGED <<fxVars, midiVars, recVars, mixVars, tempoVars>>

\* Meter levels and RMS values are in units of 1e-8 of full scale.
MeterFloor == 2000000
RmsVals == {0, 20000000, 50000000, 80000000, 100000000}

LevelMax(a, b) == IF a >= b THEN a ELSE b

\* updateMeter(deck) on one level: with an analysis tap on a playing deck
\* the level is max(level * 0.85, rms), otherwise max(level * 0.9, 0.02).
\* The wave and the meter element exist from mount on.
updateMeter(level, live, rms) ==
  IF live THEN LevelMax((level * 17) \div 20, rms)
  ELSE LevelMax((level * 9) \div 10, MeterFloor)

\* One run of a requestAnimationFrame callback: updateMeter("A") and
\* updateMeter("B").
tick(levels, rms) ==
  [d \in Decks |-> updateMeter(levels[d], nodes[d].analyser # 0 /\ playing[d], rms[d])]

\* One animation frame.  Two mount effects each keep a requestAnimationFrame
\* loop of their own, so the frame runs both callbacks, one after the other.
AnimationFrame(rms) ==
  /\ Tick
  /\ meterLevel' = tick(tick(meterLevel, rms), rms)
  /\ UNCHANGED audioCtx
  /\ UNCHANGED <<lastTapOn, analysing, loaded, stored, settingsLoad>>
  /\ UNCHANGED <<fxVars, midiVars, deckVars, recVars, mixVars, tempoVars>>

\* Beat-snap switch: setBeatSnap(prev => !prev).
toggleBeatSnap ==
  /\ Tick
  /\ beatSnap' = ~beatSnap
  /\ UNCHANGED <<playing, pos, duration, bpm, audioCtx>>
  /\ UNCHANGED <<fxVars, midiVars, recVars, mixVars, tempoVars>>
  /\ SaveEffect(beatSnap', midiMap')
  /\ UNCHANGED <<lastTapOn, analysing, loaded, meterLevel, settingsLoad>>

\* A rate is a fraction <<num, den>> in lowest terms.
RECURSIVE Gcd(_, _)
Gcd(a, b) == IF b = 0 THEN a ELSE Gcd(b, a % b)

Rate(num, den) == <<num \div Gcd(num, den), den \div Gcd(num, den)>>

\* Variant of ClampRate that passes the ratio through.
ClampRateNone(q) == q

\* Math.min(1.5, Math.max(0.6, ratio))
ClampRate(q) ==
  IF q[1] * 5 < 3 * q[2] THEN <<3, 5>>
  ELSE IF q[1] * 2 > 3 * q[2] THEN <<3, 2>>
  ELSE q

\* Variant of setTempo that stores the rate for the other deck.
setTempoOtherDeck(d, q) == tempo' = [tempo EXCEPT ![OtherDeck(d)] = q]

\* setTempo(deck, value): wave.setPlaybackRate(value, true) and the deck's
\* tempo state; the value is stored as given.
setTempo(d, q) == tempo' = [tempo EXCEPT ![d] = q]

\* Tempo knob onChange: setTempo(deck, Number(e.target.value)), the knob
\* standing at v/100.
TempoKnob(d, v) ==
  /\ Tick
  /\ setTempo(d, Rate(v, 100))
  /\ UNCHANGED <<lastTap, audioCtx>>
  /\ UNCHANGED <<fxVars, midiVars, deckVars, recVars, mixVars>>
  /\ UNCHANGED auxVars

\* Variant of syncTempo that divides the deck's own BPM by the other's.
syncTempoInverted(d) ==
  /\ Tick
  /\ IF bpm[OtherDeck(d)] = 0 \/ bpm[d] = 0
     THEN UNCHANGED <<tempo, audioCtx>>
     ELSE /\ setTempo(d, ClampRate(Rate(bpm[d], bpm[OtherDeck(d)])))
          /\ audioCtx' = TRUE
  /\ UNCHANGED lastTap
  /\ UNCHANGED <<fxVars, midiVars, deckVars, recVars, mixVars>>
  /\ UNCHANGED auxVars

\* syncTempo(deck): sourceBpm is the other deck's estimate, targetBpm the
\* deck's own.
syncTempo(d) ==
  /\ Tick
  /\ IF bpm[OtherDeck(d)] = 0 \/ bpm[d] = 0
     THEN UNCHANGED <<tempo, audioCtx>>
     ELSE /\ setTempo(d, ClampRate(Rate(bpm[OtherDeck(d)], bpm[d])))
          /\ audioCtx' = TRUE
  /\ UNCHANGED lastTap
  /\ UNCHANGED <<fxVars, midiVars, deckVars, recVars, mixVars>>
  /\ UNCHANGED auxVars

\* Variant of tapTempo that keeps the old timestamp when the interval is
\* out of range.
tapTempoKeepsStamp(d, gap) ==
  /\ Tick
  /\ IF lastTap = 0
     THEN lastTap' = lastTap + gap /\ UNCHANGED <<bpm, audioCtx>>
     ELSE IF gap < 250 \/ gap > 2000
     THEN UNCHANGED <<lastTap, bpm, audioCtx>>
     ELSE /\ lastTap' = lastTap + gap
          /\ bpm' = [bpm EXCEPT ![d] = RoundDiv(60000, gap)]
          /\ audioCtx' = TRUE
  /\ UNCHANGED <<playing, pos, duration, beatSnap, tempo>>
  /\ UNCHANGED <<fxVars, midiVars, recVars, mixVars>>
  /\ lastTapOn' = [lastTapOn EXCEPT ![d] = lastTap + gap]
  /\ UNCHANGED <<analysing, loaded, meterLevel, stored, settingsLoad>>

\* tapTempo(deck) called gap ms after the previous tap (after page load for
\* the first one): now = performance.now().
tapTempo(d, gap) ==
  /\ Tick
  /\ LET now == lastTap + gap
         interval == now - lastTap
     IN /\ lastTap' = now
        /\ IF lastTap = 0 \/ interval < 250 \/ interval > 2000
           THEN UNCHANGED <<bpm, audioCtx>>
           ELSE /\ bpm' = [bpm EXCEPT ![d] = RoundDiv(60000, interval)]
                /\ audioCtx' = TRUE
  /\ UNCHANGED <<playing, pos, duration, beatSnap, tempo>>
  /\ UNCHANGED <<fxVars, midiVars, recVars, mixVars>>
  /\ lastTapOn' = [lastTapOn EXCEPT ![d] = lastTap + gap]
  /\ UNCHANGED <<analysing, loaded, meterLevel, stored, settingsLoad>>

\* ------------------------------------------------------------------- mixer

\* Crossfader input onChange: setCrossfader(Number(e.target.value)); the
\* volumes memo and its effect follow in the same render.
setCrossfader(v) ==
  /\ Tick
  /\ crossfader' = v
  /\ volume' = volumes(v, master)
  /\ UNCHANGED <<master, audioCtx>>
  /\ UNCHANGED <<fxVars, midiVars, deckVars, recVars, tempoVars>>
  /\ UNCHANGED auxVars

\* Master input onChange: setMaster(Number(e.target.value)).
setMaster(v) ==
  /\ Tick
  /\ master' = v
  /\ volume' = volumes(crossfader, v)
  /\ UNCHANGED <<crossfader, audioCtx>>
  /\ UNCHANGED <<fxVars, midiVars, deckVars, recVars, tempoVars>>
  /\ UNCHANGED auxVars

\* ---------------------------------------------------------------- recorder

\* toggleRecord() as run by a closure that sees seenRecording; tapOk is
\* whether source.connect(destination) succeeds.  Gives the new recorder
\* state, how the request ended and whether playClick ran.
HasAc == ctx["A"] \/ audioCtx

RecState ==
  [recording |-> recording, recorderRef |-> recorderRef, activeRec |-> activeRec,
   nextRec |-> nextRec, stopping |-> stopping, recordChunks |-> recordChunks,
   outcome |-> "none", click |-> FALSE]

\* Variant of toggleRecordResult that goes on to record when the tap fails.
toggleRecordResultTapIgnored(seenRecording, tapOk) ==
  IF ~HasAc
  THEN [RecState EXCEPT !.outcome = "noctx"]
  ELSE IF seenRecording
  THEN [RecState EXCEPT
          !.recording = FALSE,
          !.activeRec = activeRec \ {recorderRef},
          !.stopping = IF recorderRef \in activeRec
                       THEN stopping \cup {<<recorderRef, "data">>} ELSE stopping,
          !.outcome = "stopped",
          !.click = TRUE]
  ELSE [RecState EXCEPT
          !.recording = TRUE,
          !.recorderRef = nextRec + 1,
          !.activeRec = activeRec \cup {nextRec + 1},
          !.nextRec = nextRec + 1,
          !.recordChunks = <<>>,
          !.outcome = IF tapOk THEN "started" ELSE "tapfail",
          !.click = TRUE]

toggleRecordResult(seenRecording, tapOk) ==
  IF ~HasAc
  THEN [RecState EXCEPT !.outcome = "noctx"]
  ELSE IF seenRecording
  THEN [RecState EXCEPT
          !.recording = FALSE,
          !.activeRec = activeRec \ {recorderRef},
          !.stopping = IF recorderRef \in activeRec
                       THEN stopping \cup {<<recorderRef, "data">>} ELSE stopping,
          !.outcome = "stopped",
          !.click = TRUE]
  ELSE IF ~tapOk
  THEN [RecState EXCEPT !.outcome = "tapfail"]
  ELSE [RecState EXCEPT
          !.recording = TRUE,
          !.recorderRef = nextRec + 1,
          !.activeRec = activeRec \cup {nextRec + 1},
          !.nextRec = nextRec + 1,
          !.recordChunks = <<>>,
          !.outcome = "started",
          !.click = TRUE]

RecordStep(seenRecording, tapOk) ==
  LET r == toggleRecordResult(seenRecording, tapOk)
  IN /\ recording' = r.recording
     /\ recorderRef' = r.recorderRef
     /\ activeRec' = r.activeRec
     /\ nextRec' = r.nextRec
     /\ stopping' = r.stopping
     /\ recordChunks' = r.recordChunks
     /\ lastRec' = r.outcome
     /\ UNCHANGED <<recordedUrl, emitted>>

\* Record button onClick: toggleRecord of the current render.
toggleRecord(tapOk) ==
  /\ Tick
  /\ RecordStep(recording, tapOk)
  /\ audioCtx' = (audioCtx \/ toggleRecordResult(recording, tapOk).click)
  /\ UNCHANGED <<fxVars, midiVars, deckVars, mixVars, tempoVars>>
  /\ UNCHANGED auxVars

\* recorder.ondataavailable of a stopped recorder r: the data gathered since
\* start() is pushed to whatever array recordChunksRef holds now.
ondataavailable(r, size) ==
  /\ <<r, "data">> \in stopping
  /\ stopping' = (stopping \ {<<r, "data">>}) \cup {<<r, "stop">>}
  /\ recordChunks' = IF size > 0 THEN Append(recordChunks, r) ELSE recordChunks
  /\ emitted' = IF size > 0 THEN emitted \cup {r} ELSE emitted
  /\ UNCHANGED <<recording, recorderRef, activeRec, nextRec, recordedUrl, lastRec>>
  /\ UNCHANGED <<fxVars, midiVars, deckVars, mixVars, tempoVars, audioCtx, ops>>
  /\ UNCHANGED auxVars

\* recorder.onstop of recorder r: a blob of recordChunksRef.current is exposed.
onstop(r) ==
  /\ <<r, "stop">> \in stopping
  /\ stopping' = stopping \ {<<r, "stop">>}
  /\ recordedUrl' = [exposed |-> TRUE, chunks |-> recordChunks]
  /\ UNCHANGED <<recording, recorderRef, activeRec, nextRec, recordChunks, lastRec,
                  emitted>>
  /\ UNCHANGED <<fxVars, midiVars, deckVars, mixVars, tempoVars, audioCtx, ops>>
  /\ UNCHANGED auxVars

\* -------------------------------------------------------------------- MIDI

\* The closure created by the render in which the MIDI effect runs.
Closure(map) ==
  [installed |-> TRUE, map |-> map, recording |-> recording, bpm |-> bpm,
   beatSnap |-> beatSnap]

\* Settings input onChange: setMidiMap(prev => ({...prev, [action]: code}));
\* the new object re-runs the MIDI effect, which requests access again.
setMidiCode(action, code) ==
  /\ Tick
  /\ midiMap' = [midiMap EXCEPT ![action] = code]
  /\ midiRef' = "own"
  /\ pending' = pending \cup {Closure(midiMap')}
  /\ UNCHANGED <<handler, audioCtx>>
  /\ UNCHANGED <<fxVars, deckVars, recVars, mixVars, tempoVars>>
  /\ SaveEffect(beatSnap', midiMap')
  /\ UNCHANGED <<lastTapOn, analysing, loaded, meterLevel, settingsLoad>>

\* applyPreset(name): setMidiMap(preset.midiMap); setting the object already
\* held changes nothing and does not re-run the effect.
applyPreset(name) ==
  /\ Tick
  /\ midiMap' = DEFAULT_PRESETS[name]
  /\ midiRef' = name
  /\ pending' = IF midiRef = name THEN pending ELSE pending \cup {Closure(midiMap')}
  /\ UNCHANGED <<handler, audioCtx>>
  /\ UNCHANGED <<fxVars, deckVars, recVars, mixVars, tempoVars>>
  /\ IF midiRef = name THEN UNCHANGED stored ELSE SaveEffect(beatSnap', midiMap')
  /\ UNCHANGED <<lastTapOn, analysing, loaded, meterLevel, settingsLoad>>

\* A requestMIDIAccess() promise resolves: its closure becomes the input's
\* onmidimessage, replacing whatever was installed.
\* What a previous run can have left in localStorage: nothing, or the last
\* payload its save effect wrote.
PreviousRuns ==
  {NoSettings,
   SettingsPayload(FALSE, DEFAULT_MIDI),
   SettingsPayload(TRUE, [DEFAULT_MIDI EXCEPT !.recordToggle = 41]),
   SettingsPayload(FALSE, [DEFAULT_MIDI EXCEPT !.master = 41])}

\* The state of the first render, before any effect has run.
InitStartup ==
  /\ wet = [d \in Decks |-> DefaultWet]
  /\ InitCore
  /\ pending = {}
  /\ \E p \in PreviousRuns :
       /\ stored = p
       /\ settingsLoad = [phase |-> "rendered", previous |-> p]

\* The effects of the first render, in the order they are declared: the
\* MIDI effect requests access, loadSettings starts and suspends at
\* `await Store.load(...)`, and the save effect, finding storeRef.current
\* null, writes the payload of the first render to localStorage.
MountEffects ==
  /\ settingsLoad.phase = "rendered"
  /\ pending' = pending \cup {Closure(midiMap)}
  /\ settingsLoad' = [settingsLoad EXCEPT !.phase = "loading"]
  /\ stored' = SettingsPayload(beatSnap, midiMap)
  /\ UNCHANGED <<midiMap, midiRef, handler, audioCtx, ops>>
  /\ UNCHANGED <<lastTapOn, analysing, loaded, meterLevel>>
  /\ UNCHANGED <<fxVars, deckVars, recVars, mixVars, tempoVars>>

\* loadSettings outside Tauri: Store.load rejects and the catch reads
\* localStorage; with a payload there, setBeatSnap and the merged setMidiMap
\* run, then the MIDI effect and the save effect of that render.
loadSettingsFallback ==
  /\ settingsLoad.phase = "loading"
  /\ settingsLoad' = [settingsLoad EXCEPT !.phase = "done"]
  /\ IF stored = NoSettings
     THEN UNCHANGED <<beatSnap, midiMap, midiRef, pending, stored>>
     ELSE /\ beatSnap' = stored.beatSnap
          /\ midiMap' = [a \in MidiActions |-> stored.midiMap[a]]
          /\ midiRef' = "own"
          /\ pending' = pending \cup {[Closure(midiMap') EXCEPT !.beatSnap = beatSnap']}
          /\ SaveEffect(beatSnap', midiMap')
  /\ UNCHANGED <<handler, audioCtx, playing, pos, duration, bpm, ops>>
  /\ UNCHANGED <<lastTapOn, analysing, loaded, meterLevel>>
  /\ UNCHANGED <<fxVars, recVars, mixVars, tempoVars>>

\* resetPreferences: beat-snap on, the default map, the built-in presets.
\* The deck effects (fxA, fxB, wetA, wetB) are not among its setters.  The
\* MIDI effect and the save effect re-run when their dependencies changed.
resetPreferences ==
  /\ Tick
  /\ beatSnap' = TRUE
  /\ midiMap' = DEFAULT_MIDI
  /\ midiRef' = "Default"
  /\ pending' = IF midiRef = "Default" THEN pending
                ELSE pending \cup {[Closure(DEFAULT_MIDI) EXCEPT !.beatSnap = TRUE]}
  /\ IF midiRef = "Default" /\ beatSnap THEN UNCHANGED stored
     ELSE SaveEffect(beatSnap', midiMap')
  /\ UNCHANGED <<handler, audioCtx, playing, pos, duration, bpm>>
  /\ UNCHANGED <<fxVars, recVars, mixVars, tempoVars>>
  /\ UNCHANGED <<lastTapOn, analysing, loaded, meterLevel, settingsLoad>>

\* Codes typed into a mapping field of the settings: the number inputs
\* carry no min or max, so 128 is accepted like any other number.
SettingsCodes == {41, 128}

\* Sessions kept from an earlier run (the saved payload of saveSession).
Sessions ==
  {[name |-> "Gig",
    fx |-> [d \in Decks |-> DEFAULT_FX_PRESETS["Wide"].fx],
    wet |-> [d \in Decks |-> DEFAULT_FX_PRESETS["Wide"].wet],
    crossfader |-> 50, master |-> 80, beatSnap |-> FALSE,
    midiMap |-> [DEFAULT_MIDI EXCEPT !.recordToggle = 41],
    bpm |-> [A |-> 120, B |-> 0]]}

\* Settings files offered to importSettings: beatSnap holds the file's
\* boolean, or nothing when the file has none; midiMap holds the codes the
\* file lists.
ImportFiles ==
  {[beatSnap |-> <<>>, midiMap |-> [master |-> 9]],
   [beatSnap |-> <<FALSE>>, midiMap |-> [deckAPlay |-> 61, recordToggle |-> 200]]}

\* loadSession(name): every setter of the session, then the effects of the
\* render: applyFilters on both decks, the volumes, the MIDI effect and the
\* save effect.
loadSession(s) ==
  /\ Tick
  /\ fx' = s.fx
  /\ wet' = s.wet
  /\ fxRef' = [d \in Decks |-> s.name]
  /\ wetRef' = [d \in Decks |-> s.name]
  /\ IF \A d \in Decks : fxRef[d] = s.name /\ wetRef[d] = s.name
     THEN UNCHANGED <<nodes, chain>>
     ELSE FxEffect(fx', wet')
  /\ crossfader' = s.crossfader
  /\ master' = s.master
  /\ volume' = volumes(crossfader', master')
  /\ beatSnap' = s.beatSnap
  /\ bpm' = [d \in Decks |-> IF s.bpm[d] # 0 THEN s.bpm[d] ELSE bpm[d]]
  /\ midiMap' = s.midiMap
  /\ midiRef' = s.name
  /\ pending' = IF midiRef = s.name THEN pending
                ELSE pending \cup {[Closure(midiMap') EXCEPT !.bpm = bpm',
                                                            !.beatSnap = beatSnap']}
  /\ IF midiRef = s.name /\ beatSnap = s.beatSnap THEN UNCHANGED stored
     ELSE SaveEffect(beatSnap', midiMap')
  /\ UNCHANGED <<eqGain, ctx, lastOn, audioCtx, handler, playing, pos, duration>>
  /\ UNCHANGED <<recVars, tempoVars>>
  /\ UNCHANGED <<lastTapOn, analysing, loaded, meterLevel, settingsLoad>>

\* importSettings(file) once the file is read and parsed: beatSnap when the
\* file has a boolean, the file's codes merged over the current map.
importSettings(file) ==
  /\ Tick
  /\ beatSnap' = IF file.beatSnap # <<>> THEN file.beatSnap[1] ELSE beatSnap
  /\ midiMap' = [a \in MidiActions |->
                   IF a \in DOMAIN file.midiMap THEN file.midiMap[a] ELSE midiMap[a]]
  /\ midiRef' = "own"
  /\ pending' = pending \cup {[Closure(midiMap') EXCEPT !.beatSnap = beatSnap']}
  /\ SaveEffect(beatSnap', midiMap')
  /\ UNCHANGED <<handler, audioCtx, playing, pos, duration, bpm>>
  /\ UNCHANGED <<fxVars, recVars, mixVars, tempoVars>>
  /\ UNCHANGED <<lastTapOn, analysing, loaded, meterLevel, settingsLoad>>

MIDIAccessResolved(req) ==
  /\ req \in pending
  /\ handler' = req
  /\ pending' = pending \ {req}
  /\ UNCHANGED <<midiMap, midiRef, audioCtx, ops>>
  /\ UNCHANGED <<fxVars, deckVars, recVars, mixVars, tempoVars>>
  /\ UNCHANGED auxVars

Command(msg) == (msg[1] \div 16) * 16

IsNoteOn(msg) == Len(msg) >= 3 /\ Command(msg) = 144 /\ msg[3] > 0
IsCC(msg) == Len(msg) >= 3 /\ Command(msg) = 176

\* The logical actions whose `if (data1 === midiMap.x)` test succeeds.
NoteHits(map, msg) ==
  IF IsNoteOn(msg) THEN {a \in NoteActions : map[a] = msg[2]} ELSE {}
CCHits(map, msg) ==
  IF IsCC(msg) THEN {a \in CCActions : map[a] = msg[2]} ELSE {}

\* Math.round((data2 / 127) * 100)
CCValue(data2) == RoundDiv(data2 * 100, 127)

\* input.onmidimessage(event): decode, match against the closure's map and
\* call the closure's togglePlay / toggleFx / toggleRecord / setters.
onmidimessage(msg, tapOk) ==
  /\ Tick
  /\ handler.installed
  /\ LET hits == NoteHits(handler.map, msg)
         cc == CCHits(handler.map, msg)
         fxHit(d, k) == FxAction[d][k] \in hits
         anyFx == \E d \in Decks, k \in FxKeys : fxHit(d, k)
         turnedOn == {dk \in Decks \X FxKeys : fxHit(dk[1], dk[2]) /\ ~fx[dk[1]][dk[2]]}
         rec == toggleRecordResult(handler.recording, tapOk)
     IN /\ pos' = [d \in Decks |-> IF PlayAction[d] \in hits
                                   THEN togglePlayPos(d, handler.bpm, handler.beatSnap)
                                   ELSE pos[d]]
        /\ playing' = [d \in Decks |-> IF PlayAction[d] \in hits
                                       THEN togglePlayPlaying(d) ELSE playing[d]]
        /\ fx' = [d \in Decks |-> [k \in FxKeys |-> IF fxHit(d, k) THEN ~fx[d][k] ELSE fx[d][k]]]
        /\ fxRef' = [d \in Decks |-> IF \E k \in FxKeys : fxHit(d, k) THEN "own" ELSE fxRef[d]]
        /\ lastOn' = IF turnedOn = {} THEN lastOn ELSE CHOOSE dk \in turnedOn : TRUE
        /\ IF anyFx THEN FxEffect(fx', wet) ELSE UNCHANGED <<nodes, chain>>
        /\ IF "recordToggle" \in hits
           THEN RecordStep(handler.recording, tapOk)
           ELSE UNCHANGED recVars
        /\ audioCtx' = (audioCtx \/ (\E d \in Decks : PlayAction[d] \in hits)
                                 \/ ("recordToggle" \in hits /\ rec.click))
        /\ crossfader' = IF "crossfader" \in cc THEN CCValue(msg[3]) ELSE crossfader
        /\ master' = IF "master" \in cc THEN CCValue(msg[3]) ELSE master
        /\ volume' = volumes(crossfader', master')
  /\ UNCHANGED <<wet, wetRef, eqGain, ctx, duration, bpm, beatSnap>>
  /\ UNCHANGED <<midiVars, tempoVars>>
  /\ UNCHANGED auxVars

\* Outcomes of source.connect(destination) that a message can meet: the tap
\* is attempted only by a message that reaches toggleRecord.
TapOutcomes(msg) ==
  IF handler.installed /\ "recordToggle" \in NoteHits(handler.map, msg)
  THEN BOOLEAN ELSE {TRUE}

\* ----------------------------------------------------------- specifications

\* The effects chain under UI input and controller notes.
Next ==
  \/ \E d \in Decks, k \in FxKeys : toggleFx(d, k)
  \/ \E d \in Decks, k \in FxKeys, p \in WetVals : setWet(d, k, p)
  \/ \E d \in Decks, b \in Bands, v \in EqVals : setEQ(d, b, v)
  \/ \E d \in Decks, dur \in TrackDurations : TrackReady(d, dur)
  \/ \E req \in pending : MIDIAccessResolved(req)
  \/ \E msg \in FxMidiMsgs : onmidimessage(msg, TRUE)

Spec == Init /\ [][Next]_vars

\* The control surface: controller messages, mapping edits, transport and
\* the recorder.
NextMidi ==
  \/ \E msg \in MidiMsgs : \E tapOk \in TapOutcomes(msg) : onmidimessage(msg, tapOk)
  \/ \E req \in pending : MIDIAccessResolved(req)
  \/ \E a \in EditActions, code \in EditCodes : setMidiCode(a, code)
  \/ \E name \in PresetNames : applyPreset(name)
  \/ \E tapOk \in BOOLEAN : toggleRecord(tapOk)
  \/ \E r \in 1..nextRec, size \in ChunkSizes : ondataavailable(r, size)
  \/ \E r \in 1..nextRec : onstop(r)
  \/ \E d \in Decks : togglePlay(d)
  \/ \E d \in Decks, t \in SeekTimes : Seek(d, t)
  \/ \E d \in Decks, b \in BpmVals \cup {0} : analyzeTrack(d, b)
  \/ \E d \in Decks, dur \in TrackDurations : TrackReady(d, dur)
  \/ toggleBeatSnap

SpecMidi == Init /\ [][NextMidi]_vars

\* Effect presets next to the toggles and wet knobs.
NextPreset ==
  \/ \E d \in Decks, name \in FxPresetNames : applyFxPreset(d, name)
  \/ \E d \in Decks, k \in FxKeys : toggleFx(d, k)
  \/ \E d \in Decks, k \in FxKeys, p \in WetVals : setWet(d, k, p)
  \/ \E d \in Decks, dur \in TrackDurations : TrackReady(d, dur)
  \/ resetPreferences

SpecPreset == Init /\ [][NextPreset]_vars

\* The wet knobs over their whole range: deck A's toggles, knobs and loads.
NextWet ==
  \/ \E d \in WetDecks, k \in FxKeys : toggleFx(d, k)
  \/ \E d \in WetDecks, k \in FxKeys, p \in WetVals : setWet(d, k, p)
  \/ \E d \in WetDecks, dur \in TrackDurations : TrackReady(d, dur)

SpecWet == InitWet /\ [][NextWet]_vars

\* Tempo: the knobs, sync, tap tempo and the analysis results.
NextTempo ==
  \/ \E d \in Decks, v \in TempoVals : TempoKnob(d, v)
  \/ \E d \in Decks : syncTempo(d)
  \/ \E d \in Decks, gap \in TapGaps : tapTempo(d, gap)
  \/ \E d \in Decks, b \in BpmVals \cup {0} : analyzeTrack(d, b)
  \/ \E d \in Decks, dur \in TrackDurations : TrackReady(d, dur)

SpecTempo == Init /\ [][NextTempo]_vars

\* Track loads with their analyses in flight, next to the transport.
NextLoad ==
  \/ \E d \in Decks, b \in BpmVals \cup {0} : loadTrack(d, b)
  \/ \E d \in Decks, n \in 1..MaxOps, b \in BpmVals \cup {0} :
       analyzeTrackSettled([deck |-> d, n |-> n, bpm |-> b])
  \/ \E d \in Decks, dur \in TrackDurations : TrackReady(d, dur)
  \/ \E d \in Decks : togglePlay(d)
  \/ \E d \in Decks, t \in SeekTimes : Seek(d, t)
  \/ \E d \in Decks : syncTempo(d)

SpecLoad == Init /\ [][NextLoad]_vars

\* The settings panel: mapping edits, presets, sessions and imports.
NextSettings ==
  \/ \E a \in EditActions, code \in SettingsCodes : setMidiCode(a, code)
  \/ \E name \in PresetNames : applyPreset(name)
  \/ \E s \in Sessions : loadSession(s)
  \/ \E file \in ImportFiles : importSettings(file)
  \/ toggleBeatSnap

SpecSettings == Init /\ [][NextSettings]_vars

\* The level meters: animation frames next to loading and playing.
NextMeter ==
  \/ \E rms \in [Decks -> RmsVals] : AnimationFrame(rms)
  \/ \E d \in Decks, dur \in TrackDurations : TrackReady(d, dur)
  \/ \E d \in Decks : togglePlay(d)
  \/ \E d \in Decks, t \in SeekTimes : Seek(d, t)

SpecMeter == Init /\ [][NextMeter]_vars

\* Start-up outside Tauri, with what a previous run has stored.
NextStartup ==
  \/ MountEffects
  \/ loadSettingsFallback
  \/ \E req \in pending : MIDIAccessResolved(req)
  \/ \E a \in EditActions, code \in EditCodes : setMidiCode(a, code)
  \/ \E name \in PresetNames : applyPreset(name)
  \/ toggleBeatSnap

SpecStartup == InitStartup /\ [][NextStartup]_vars

\* The mixer: crossfader and master over their whole range.
NextMix ==
  \/ \E v \in FaderSteps : setCrossfader(v)
  \/ \E v \in FaderSteps : setMaster(v)

SpecMix == Init /\ [][NextMix]_vars

\* Control-change messages next to edits of the crossfader and master codes.
NextCC ==
  \/ \E msg \in CCMsgs : onmidimessage(msg, TRUE)
  \/ \E req \in pending : MIDIAccessResolved(req)
  \/ \E a \in CCActions, code \in CCEditCodes : setMidiCode(a, code)

SpecCC == Init /\ [][NextCC]_vars

\* ------------------------------------------------------------------ claims

FxStages == {"gate", "filter", "delay", "reverb"}
IsFxStage(s) == s \in FxStages

\* The effect stages of a chain, EQ stages left out.
FxPart(c) == SelectSeq(c, IsFxStage)

FxRank(s) == CASE s = "gate" -> 1 [] s = "filter" -> 2 [] s = "delay" -> 3 [] s = "reverb" -> 4

StageRank(s) ==
  CASE s = "gate" -> 1 [] s = "lowshelf" -> 2 [] s = "peaking" -> 3
    [] s = "highshelf" -> 4 [] s = "filter" -> 5 [] s = "delay" -> 6 [] s = "reverb" -> 7

InChain(d, s) == \E i \in 1..Len(chain[d]) : chain[d][i] = s
Count(d, s) == Cardinality({i \in 1..Len(chain[d]) : chain[d][i] = s})

\* C1: in every realized chain the effect stages appear in the relative
\* order gate, filter, delay, reverb, whatever the order of the toggles.
C1_FxOrderFixed ==
  \A d \in Decks :
    \A i, j \in 1..Len(FxPart(chain[d])) :
      i < j => FxRank(FxPart(chain[d])[i]) < FxRank(FxPart(chain[d])[j])

\* The gate was the last effect switched on, after filter and delay, and is
\* first in the realized chain.
C1_Witness ==
  \E d \in Decks :
    /\ lastOn = <<d, "gate">>
    /\ FxPart(chain[d]) = <<"gate", "filter", "delay">>

\* C2: on a deck with a rendering context (applyFilters has run), gate,
\* filter and delay are in the chain iff their toggle is on, reverb iff its
\* toggle is on and its impulse buffer exists, and no stage occurs twice.
C2_ChainMatchesToggles ==
  \A d \in Decks :
    ctx[d] =>
      /\ \A k \in {"gate", "filter", "delay"} : InChain(d, k) <=> fx[d][k]
      /\ InChain(d, "reverb") <=> (fx[d]["reverb"] /\ nodes[d].reverb.buffer)
      /\ \A s \in FxStages \cup Bands : Count(d, s) <= 1

\* The realization applyFilters owes to the deck's present FxState.
Realizes(d) ==
  /\ chain[d] = BuildChain(nodes[d], fx[d])
  /\ nodes[d] = ApplyParams(nodes[d], fx[d], wet[d])

\* The steps that invoke applyFilters(d).
InvokesApplyFilters(d) ==
  \/ \E dur \in TrackDurations : TrackReady(d, dur)
  \/ \E e \in Decks, k \in FxKeys : toggleFx(e, k)
  \/ \E e \in Decks, k \in FxKeys, p \in WetVals : setWet(e, k, p)
  \/ \E b \in Bands, v \in EqVals : setEQ(d, b, v)
  \/ \E msg \in FxMidiMsgs :
       onmidimessage(msg, TRUE) /\ NoteHits(handler.map, msg) # {}

\* C3: every invocation of applyFilters on a deck with a context, the one
\* made by the "ready" handler included, realizes the chain and parameters
\* of the FxState current at that moment.
C3_RealizesCurrentFxState ==
  [][\A d \in Decks : (InvokesApplyFilters(d) /\ ctx'[d]) => Realizes(d)']_vars

\* C4: the EQ stages of a chain stand after the gate and before the resonant
\* filter, in the order low-shelf, mid-peak, high-shelf.
C4_EqOrderFixed ==
  \A d \in Decks :
    \A i, j \in 1..Len(chain[d]) :
      i < j => StageRank(chain[d][i]) < StageRank(chain[d][j])

\* The handles of node set n are all still in node set m.
HandlesKept(n, m) ==
  /\ n.filter.id # 0 => m.filter.id = n.filter.id
  /\ n.delay.id # 0 => m.delay.id = n.delay.id
  /\ n.delayFeedback.id # 0 => m.delayFeedback.id = n.delayFeedback.id
  /\ n.reverb.id # 0 => m.reverb.id = n.reverb.id
  /\ n.gate.id # 0 => m.gate.id = n.gate.id
  /\ n.analyser # 0 => m.analyser = n.analyser
  /\ \A i \in 1..Len(n.eq) :
       \E j \in 1..Len(m.eq) : m.eq[j].type = n.eq[i].type /\ m.eq[j].id = n.eq[i].id

\* C9: a stage handle, once created for a deck, is in the deck's node set
\* after every later step; it is never replaced by a newly created one.
C9_HandlesNeverRecreated ==
  [][\A d \in Decks : HandlesKept(nodes[d], nodes'[d])]_vars

\* A deck whose stages, analysis tap and an EQ band exist and whose gate has
\* been reparametrized and realized by a later applyFilters.
C9_Witness ==
  \E d \in Decks :
    /\ nodes[d].analyser # 0
    /\ nodes[d].filter.id # 0
    /\ Len(nodes[d].eq) > 0
    /\ InChain(d, "gate")
    /\ nodes[d].gate.threshold = GateThreshold(wet[d]["gate"])

\* C10: without a rendering context the node set stays empty and no chain
\* is realized, whatever toggles and EQ changes are made; on a deck with a
\* context the stages exist, audioCtxRef is set (so createEQFilter cannot
\* throw) and setEQ leaves the band's stage with the requested gain.
C10_NoContextNoOp ==
  /\ [](\A d \in Decks : ~ctx[d] => nodes[d] = NoNodes /\ chain[d] = <<>>)
  /\ [](\A d \in Decks :
          ctx[d] => /\ audioCtx
                    /\ nodes[d].filter.id # 0 /\ nodes[d].delay.id # 0
                    /\ nodes[d].reverb.id # 0 /\ nodes[d].gate.id # 0)
  /\ [][\A d \in Decks, b \in Bands, v \in EqVals :
          (setEQ(d, b, v) /\ ctx[d]) =>
             /\ EqIndex(nodes'[d], b) # 0
             /\ nodes'[d].eq[EqIndex(nodes'[d], b)].gain = v
             /\ InChain(d, b)']_vars

\* One deck had its gate switched on and its low band turned while it had
\* no context; the same EQ call on the other deck, which has one, created
\* the band.
C10_Witness ==
  \E d \in Decks :
    /\ ~ctx[d] /\ fx[d]["gate"] /\ eqGain[d]["lowshelf"] # 0
    /\ ctx[OtherDeck(d)] /\ EqIndex(nodes[OtherDeck(d)], "lowshelf") # 0

\* C5: a record toggle or play/pause dispatched from a MIDI message does what
\* the UI handler would do in the same state: it acts on the current
\* recording flag, BPM estimates and beat-snap setting.
C5_MidiSameAsUI ==
  [][\A msg \in MidiMsgs, tapOk \in BOOLEAN :
       onmidimessage(msg, tapOk) =>
         /\ "recordToggle" \in NoteHits(handler.map, msg) => RecordStep(recording, tapOk)
         /\ \A d \in Decks :
              PlayAction[d] \in NoteHits(handler.map, msg) =>
                pos'[d] = togglePlayPos(d, bpm, beatSnap)]_vars

\* C6: at most one capture session exists, and the recording flag is true
\* exactly when one exists.
C6_OneCaptureSession ==
  /\ Cardinality(activeRec) <= 1
  /\ recording <=> activeRec # {}

BuiltInMaps == {DEFAULT_PRESETS[name] : name \in PresetNames}

\* The control state a dispatched action can change.
controlVars == <<fx, playing, pos, recording, recorderRef, activeRec, crossfader, master>>

\* C7: under the default mapping and the built-in presets, a note-on with
\* velocity 0 changes no control state and a note-on with velocity 1..127 on
\* a mapped code triggers exactly one action.
C7_OneActionPerNote ==
  [][\A msg \in MidiMsgs, tapOk \in BOOLEAN :
       (onmidimessage(msg, tapOk) /\ handler.map \in BuiltInMaps /\ Command(msg) = 144) =>
         /\ (Len(msg) >= 3 /\ msg[3] = 0) => UNCHANGED controlVars
         /\ NoteHits(handler.map, msg) # {} => Cardinality(NoteHits(handler.map, msg)) = 1]_vars

\* C8: every message is dispatched against the MidiMap current at delivery.
C8_DispatchUsesCurrentMap ==
  [][\A msg \in MidiMsgs, tapOk \in BOOLEAN :
       onmidimessage(msg, tapOk) => handler.map = midiMap]_vars

\* C11: when applyFilters is invoked on a deck where it has run before (the
\* deck has a context) and the deck's FxState, wet amounts and EQ stages are
\* the same before and after the step, the chain and the node set with its
\* parameters, handles and feedback pair stay as the earlier call left them.
C11_ApplyFiltersIdempotent ==
  [][\A d \in Decks :
       (/\ InvokesApplyFilters(d) /\ ctx[d]
        /\ fx'[d] = fx[d] /\ wet'[d] = wet[d] /\ nodes'[d].eq = nodes[d].eq)
       => (chain'[d] = chain[d] /\ nodes'[d] = nodes[d])]_vars

\* C12: for every wet amount of the knob range, a stage that is in the
\* realized chain carries the parameter mapped from the deck's current wet
\* amount: gate threshold -50 + wet*30 dB, cutoff 500 + wet*7500 Hz, delay
\* time 0.05 + wet*0.45 s, feedback gain 0.10 + wet*0.60.
C12_ParamsFollowWet ==
  \A d \in Decks :
    /\ InChain(d, "gate") => nodes[d].gate.threshold = 30 * wet[d]["gate"] - 5000
    /\ InChain(d, "filter") => nodes[d].filter.frequency = 500 + 75 * wet[d]["filter"]
    /\ InChain(d, "delay") =>
         /\ nodes[d].delay.delayTime = 500 + 45 * wet[d]["delay"]
         /\ nodes[d].delayFeedback.gain = 100 + 6 * wet[d]["delay"]

\* Gate, filter and delay are realized on a deck whose knobs stand at a
\* value that is neither a default nor the knob's end.
C12_Witness ==
  \E d \in Decks :
    /\ InChain(d, "gate") /\ InChain(d, "filter") /\ InChain(d, "delay")
    /\ \A k \in {"gate", "filter", "delay"} : wet[d][k] \notin {0, 25, 50, 100}

\* The recorder state a failed start request must leave alone.
StaysIdle ==
  /\ ~recording'
  /\ UNCHANGED <<recorderRef, activeRec, nextRec, stopping, recordChunks, recordedUrl,
                  emitted>>
  /\ lastRec' \in {"noctx", "tapfail"}

\* C13: a record request made while Idle that finds no rendering context,
\* or whose tap of the master output fails, returns early: the recording
\* flag stays false, no recorder is built or installed, and the chunk buffer
\* and the exposed artifact stay as they were.
C13_FailedStartStaysIdle ==
  [][/\ \A tapOk \in BOOLEAN :
          (~recording /\ (~HasAc \/ ~tapOk) /\ toggleRecord(tapOk)) => StaysIdle
     /\ \A msg \in MidiMsgs, tapOk \in BOOLEAN :
          (/\ ~recording
           /\ handler.installed
           /\ "recordToggle" \in NoteHits(handler.map, msg)
           /\ (~HasAc \/ (~handler.recording /\ ~tapOk))
           /\ onmidimessage(msg, tapOk)) => StaysIdle]_vars

\* A start request whose tap failed, made after an earlier session was
\* stopped and its artifact exposed.
C13_Witness ==
  /\ lastRec = "tapfail"
  /\ ~recording
  /\ recordedUrl.exposed
  /\ recorderRef # 0

\* C14: when the stop of a session completes (its recorder's onstop), the
\* artifact exposed holds the chunks that session delivered, all of them
\* and no chunk of another session, and the chunk buffer is empty afterwards.
C14_StopExposesSessionChunks ==
  [][\A r \in 1..nextRec :
       onstop(r) =>
         /\ recordedUrl'.exposed
         /\ recordedUrl'.chunks = (IF r \in emitted THEN <<r>> ELSE <<>>)
         /\ recordChunks' = <<>>]_vars

\* C15: the first tap only stores its timestamp; a later tap whose interval
\* to the previous one is within 250..2000 ms sets the tapped deck's BPM to
\* round(60000 / interval), a value in 30..240, and any other interval
\* leaves the BPM estimates alone; every tap makes lastTap the tap's time.
C15_TapTempo ==
  [][\A d \in Decks, gap \in TapGaps :
       tapTempo(d, gap) =>
         /\ lastTap' = lastTap + gap
         /\ IF lastTap # 0 /\ 250 <= gap /\ gap <= 2000
            THEN /\ bpm'[d] \in 30..240
                 /\ (2 * bpm'[d] - 1) * gap <= 120000
                 /\ 120000 < (2 * bpm'[d] + 1) * gap
                 /\ bpm'[OtherDeck(d)] = bpm[OtherDeck(d)]
            ELSE bpm' = bpm]_vars

\* A deck without a track (so never analysed) was tapped to 30 BPM at the
\* 2000 ms end of the range, and a later tap came too soon to count.
C15_Witness ==
  \E d \in Decks :
    /\ ~ctx[d] /\ bpm[d] = 30
    /\ lastTap \in {g1 + 2000 + 249 : g1 \in TapGaps}

\* The rate q lies in [0.6, 1.5].
RateInRange(q) == 3 * q[2] <= 5 * q[1] /\ 2 * q[1] <= 3 * q[2]

C17_SyncTempo ==
  [][\A d \in Decks :
       syncTempo(d) =>
         LET n == bpm[OtherDeck(d)]
             m == bpm[d]
             q == tempo'[d]
         IN IF n # 0 /\ m # 0
            THEN /\ IF 5 * n < 3 * m THEN 5 * q[1] = 3 * q[2]
                    ELSE IF 2 * n > 3 * m THEN 2 * q[1] = 3 * q[2]
                    ELSE q[1] * m = n * q[2]
                 /\ bpm' = bpm
                 /\ tempo'[OtherDeck(d)] = tempo[OtherDeck(d)]
            ELSE UNCHANGED <<tempoVars, deckVars, mixVars, audioCtx>>]_vars

\* A deck at 150 BPM synced to a deck at 120 BPM runs at 0.8.
C17_Witness ==
  \E d \in Decks :
    /\ bpm[d] = 150 /\ bpm[OtherDeck(d)] = 120
    /\ tempo[d] = <<4, 5>>

\* The position t (ms) snapped to the nearest multiple of the beat length
\* 60000 / b ms and clamped to [0, dur]; a tie goes to the later beat.
NearestBeat(t, b, dur) ==
  LET k == CHOOSE j \in 0..((t * b) \div 60000 + 1) :
             /\ 2 * (t * b - j * 60000) < 60000
             /\ 2 * (j * 60000 - t * b) <= 60000
  IN Clamp((k * 60000) \div b, 0, dur)

\* The steps that run playPauseDeck(d): the play button and a controller
\* note mapped to the deck's play action.
PlayPauses(d) ==
  \/ togglePlay(d)
  \/ /\ handler.installed
     /\ \E msg \in MidiMsgs :
          /\ PlayAction[d] \in NoteHits(handler.map, msg)
          /\ \E tapOk \in BOOLEAN : onmidimessage(msg, tapOk)

\* C18: playPauseDeck on a paused deck with beat-snap enabled and a known
\* BPM moves the position to the nearest multiple of the beat length,
\* clamped to [0, duration]; on a playing deck, with beat-snap disabled or
\* with the BPM unknown it leaves the position alone.
C18_BeatSnapOnStart ==
  [][\A d \in Decks :
       PlayPauses(d) =>
         pos'[d] = IF ~playing[d] /\ beatSnap /\ bpm[d] # 0
                   THEN NearestBeat(pos[d], bpm[d], duration[d])
                   ELSE pos[d]]_vars

\* C19: for every crossfader c and master m in 0..100 the gain handed to
\* deck A is (1 - c/100)(m/100) and to deck B (c/100)(m/100), in 1/10000:
\* at c = 0 deck A has the whole master gain and deck B none, at c = 100 the
\* reverse, and the two gains always add up to the master gain.
C19_CrossfaderGains ==
  /\ crossfader \in 0..100 /\ master \in 0..100
  /\ volume["A"] = (100 - crossfader) * master
  /\ volume["B"] = crossfader * master
  /\ crossfader = 0 => (volume["A"] = 100 * master /\ volume["B"] = 0)
  /\ crossfader = 100 => (volume["A"] = 0 /\ volume["B"] = 100 * master)
  /\ volume["A"] + volume["B"] = 100 * master

\* The crossfader stands at the deck B end with the master fully open.
C19_Witness ==
  /\ crossfader = 100 /\ master = 100
  /\ volume = [A |-> 0, B |-> 10000]

\* v is Math.round(data2 / 127 * 100).
IsScaled(v, data2) ==
  /\ v \in 0..100
  /\ 2 * (127 * v - 100 * data2) <= 127
  /\ 2 * (100 * data2 - 127 * v) < 127

\* C20: a control-change message, on any channel, whose controller number
\* is the mapped crossfader (master) code sets the crossfader (master) to
\* round(data2 / 127 * 100): a value in 0..100, 0 for data2 = 0 and 100 for
\* data2 = 127; it triggers no note action.
C20_CCScalesTo100 ==
  [][\A msg \in CCMsgs :
       (handler.installed /\ onmidimessage(msg, TRUE)) =>
         /\ msg[2] = midiMap["crossfader"] =>
              /\ IsScaled(crossfader', msg[3])
              /\ msg[3] = 0 => crossfader' = 0
              /\ msg[3] = 127 => crossfader' = 100
         /\ msg[2] = midiMap["master"] =>
              /\ IsScaled(master', msg[3])
              /\ msg[3] = 0 => master' = 0
              /\ msg[3] = 127 => master' = 100
         /\ UNCHANGED <<fx, playing, pos, recVars>>]_vars

\* A message the dispatcher has to ignore under map: too short, a command
\* other than note-on (0x90) and control change (0xB0), or a data1 that is
\* no mapped code of the message's kind.
Ignorable(map, msg) ==
  \/ Len(msg) < 3
  \/ Command(msg) \notin {144, 176}
  \/ Command(msg) = 144 /\ \A a \in NoteActions : map[a] # msg[2]
  \/ Command(msg) = 176 /\ \A a \in CCActions : map[a] # msg[2]

\* C21: a message shorter than 3 bytes, one whose command is neither 0x90
\* nor 0xB0, and a note-on or control change whose data1 is no mapped code
\* of its kind in the MidiMap leave transport, FxState, crossfader, master
\* and the recorder as they were.
C21_UnmappedIgnored ==
  [][\A msg \in MidiMsgs, tapOk \in BOOLEAN :
       (/\ handler.installed
        /\ Ignorable(midiMap, msg)
        /\ onmidimessage(msg, tapOk)) => UNCHANGED controlVars]_vars

\* C22: when the load or analysis of a track fails for a deck, the deck's
\* BPM estimate becomes null and its duration zero whatever they were, the
\* other deck keeps its BPM and duration, and on a deck without a BPM
\* beat-snap moves nothing and sync changes no rate.
C22_FailureResetsDeck ==
  [][/\ \A job \in analysing :
          (job.bpm = 0 /\ analyzeTrackSettled(job)) =>
            /\ bpm'[job.deck] = 0
            /\ duration'[job.deck] = 0
            /\ bpm'[OtherDeck(job.deck)] = bpm[OtherDeck(job.deck)]
            /\ duration'[OtherDeck(job.deck)] = duration[OtherDeck(job.deck)]
     /\ \A d \in Decks :
          bpm[d] = 0 =>
            /\ togglePlay(d) => pos'[d] = pos[d]
            /\ syncTempo(d) => tempo' = tempo]_vars

\* The analyses of deck d that are still in flight.
InFlight(d) == {job \in analysing : job.deck = d}

\* C27: once the analyses of two or more tracks loaded on a deck have all
\* settled, the deck's BPM estimate is the outcome for the track loaded
\* last, in whatever order they settled.
C27_LatestTrackWins ==
  \A d \in Decks :
    (Len(loaded[d]) >= 2 /\ InFlight(d) = {}) => bpm[d] = loaded[d][Len(loaded[d])]

\* C23: after resetPreferences both decks' effect state is the default one,
\* all four effects off and the wet levels 35, 25, 50 and 50 percent,
\* whatever toggles, wet changes or presets came before.
C23_ResetRestoresFx ==
  [][resetPreferences =>
       /\ fx' = [d \in Decks |-> FxOff]
       /\ wet' = [d \in Decks |-> DefaultWet]]_vars

\* C24: in every state reached by settings edits, preset application,
\* session load and settings import, each of the 13 actions of the MidiMap
\* is mapped to an integer code in 0..127.
C24_CodesInMidiRange ==
  \A a \in MidiActions : midiMap[a] \in 0..127

\* C25: on each animation frame every deck's meter level is updated exactly
\* once, to max(level * 0.85, RMS) on a playing deck with an analysis tap
\* and to max(level * 0.9, 0.02) otherwise, so an idle level shrinks by the
\* factor 0.9 per frame down to the floor 0.02 and is never below 0.02 after
\* its first update.
C25_MeterOncePerFrame ==
  [][\A rms \in [Decks -> RmsVals] :
       AnimationFrame(rms) =>
         /\ meterLevel' = tick(meterLevel, rms)
         /\ \A d \in Decks :
              ~(nodes[d].analyser # 0 /\ playing[d]) => meterLevel'[d] >= MeterFloor]_vars

\* The codes of a map are distinct within the note actions and within the
\* control-change actions.
CodesDistinct(map) ==
  /\ \A a, b \in NoteActions : a # b => map[a] # map[b]
  /\ \A a, b \in CCActions : a # b => map[a] # map[b]

\* C26: while the map is the default one or a built-in preset's, the 11
\* note actions have pairwise distinct codes and the two control-change
\* actions have distinct codes, so no message fires two actions.
C26_BuiltInCodesDistinct ==
  midiRef \in PresetNames =>
    /\ CodesDistinct(midiMap)
    /\ \A msg \in MidiMsgs :
         /\ Cardinality(NoteHits(midiMap, msg)) <= 1
         /\ Cardinality(CCHits(midiMap, msg)) <= 1

\* C28: on the local-storage path, once the start-up load has completed and
\* before any edit, the beat-snap switch and the MIDI map are the ones the
\* previous run had stored: the save of the first render does not replace
\* them with the defaults before the load reads them.
C28_StoredSettingsInEffect ==
  (/\ settingsLoad.phase = "done"
   /\ ops = 0
   /\ settingsLoad.previous # NoSettings) =>
     /\ beatSnap = settingsLoad.previous.beatSnap
     /\ midiMap = settingsLoad.previous.midiMap

\* The gain a deck's signal gets in a band: that of the band's stage, or 0 dB
\* while the deck has no stage for the band.
RealizedGain(d, b) ==
  IF EqIndex(nodes[d], b) = 0 THEN 0 ELSE nodes[d].eq[EqIndex(nodes[d], b)].gain

\* C29: on a deck with a context, where applyFilters has run since the last
\* EQ change, every band's realized gain is the deck's EQ setting; a gain
\* set while the deck had no context is applied once it has one.
C29_EqGainApplied ==
  \A d \in Decks : ctx[d] => \A b \in Bands : RealizedGain(d, b) = eqGain[d][b]

\* C30: a tap on a deck changes that deck's BPM only, and the interval it
\* uses is the time since the previous tap on the same deck: the deck's
\* first tap sets no BPM and a tap on the other deck in between does not
\* shorten the interval.
C30_TapPerDeck ==
  [][\A d \in Decks, gap \in TapGaps :
       tapTempo(d, gap) =>
         LET interval == (lastTap + gap) - lastTapOn[d]
         IN /\ bpm'[OtherDeck(d)] = bpm[OtherDeck(d)]
            /\ IF lastTapOn[d] # 0 /\ 250 <= interval /\ interval <= 2000
               THEN bpm'[d] = RoundDiv(60000, interval)
               ELSE bpm'[d] = bpm[d]]_vars

====
